---- MODULE Spec2Model ----
(***************************************************************************)
(* State-machine model of the RGB LED animation engine and its command     *)
(* router (src/dancemore_ir/LEDAnimations.{h,cpp}) and of the controller of *)
(* the 7-segment display (src/dancemore_ir/DisplayController.{h,cpp}).  The *)
(* target is an AVR board (avr/pgmspace.h, PROGMEM tables): int is 16 bits  *)
(* wide and unsigned long is 32 bits wide.                                  *)
(***************************************************************************)
EXTENDS Integers, Sequences, FiniteSets, TLC

VARIABLES
  animationMode,        \* AnimationMode animationMode
  animationEndTime,     \* unsigned long animationEndTime
  lastAnimationUpdate,  \* unsigned long lastAnimationUpdate
  animationStep,        \* int animationStep
  animationInterval,    \* int animationInterval
  animationIndex,       \* uint8_t animationIndex
  animationIndex2,      \* uint8_t animationIndex2
  ackFlashState,        \* bool ackFlashState
  debugMode,            \* bool debugMode
  pins,                 \* the values last given to analogWrite for the red, green, blue pins
  clock,                \* the value millis() returns
  begun,                \* begin() has run (the sketch's setup())
  call,                 \* the last call made on the object: its name, argument, result and outputs
  redraws,              \* observer: the update() calls that ran the switch since the last other call
  observe,              \* observer: what is kept: "nothing", the "count" of the redraws,
                        \* or the count and the "calls"
  trace,                \* observer: the last call of another method and the update() calls since
  displayBrightness,    \* uint8_t DisplayController::displayBrightness
  displayEnabled,       \* bool DisplayController::displayEnabled
  displayDebug,         \* bool DisplayController::debugMode
  dcall                 \* the last call made on the display controller: its name, argument,
                        \* result, the calls it made on the TM1637Display and the line it printed

engine == <<animationMode, animationEndTime, lastAnimationUpdate, animationStep,
            animationInterval, animationIndex, animationIndex2, ackFlashState>>

\* the display controller
display == <<displayBrightness, displayEnabled, displayDebug, dcall>>

\* the animation engine, its pins, the clock and the observer
led == <<animationMode, animationEndTime, lastAnimationUpdate, animationStep,
         animationInterval, animationIndex, animationIndex2, ackFlashState,
         debugMode, pins, clock, begun, call, redraws, observe, trace>>

vars == <<animationMode, animationEndTime, lastAnimationUpdate, animationStep,
          animationInterval, animationIndex, animationIndex2, ackFlashState,
          debugMode, pins, clock, begun, call, redraws, observe, trace,
          displayBrightness, displayEnabled, displayDebug, dcall>>

----------------------------------------------------------------------------
(* Machine arithmetic *)

\* int is 16 bits on the target
INT_MAX == 32767

\* An unsigned long is 32 bits on the target.  A value is held as its two 16-bit
\* halves <<high, low>>, so that every value of the type can be written and the
\* arithmetic wraps as the machine's does.
HALF == 65536

\* the unsigned long of a number below 2^31
UL(n) == <<n \div HALF, n % HALF>>

\* the number of an unsigned long below 2^31
Val(a) == a[1] * HALF + a[2]

\* a + b in unsigned long arithmetic
AddUL(a, b) ==
  LET low == a[2] + b[2]
  IN <<(a[1] + b[1] + (low \div HALF)) % HALF, low % HALF>>

\* a - b in unsigned long arithmetic
SubUL(a, b) ==
  LET borrow == IF a[2] < b[2] THEN 1 ELSE 0
  IN <<(a[1] + HALF - b[1] - borrow) % HALF, (a[2] + HALF - b[2]) % HALF>>

\* a < b on unsigned longs
LtUL(a, b) == a[1] < b[1] \/ (a[1] = b[1] /\ a[2] < b[2])

ZeroUL == <<0, 0>>

\* conversion of a long to int keeps the low 16 bits (two's complement)
ToInt16(x) == LET m == x % 65536 IN IF m > INT_MAX THEN m - 65536 ELSE m

\* C's % truncates toward zero
CRem(a, b) == IF a >= 0 THEN a % b ELSE -((-a) % b)

\* C's / truncates toward zero
CDiv(a, b) == IF a >= 0 THEN a \div b ELSE -((-a) \div b)

\* an increment that stays at INT_MAX instead of wrapping
StepInc_Saturating(s) == IF s = INT_MAX THEN s ELSE s + 1

\* animationStep++ on a 16-bit int; the AVR build wraps at INT_MAX
StepInc(s) == IF s = INT_MAX THEN -INT_MAX - 1 ELSE s + 1

----------------------------------------------------------------------------
(* enum AnimationMode *)

ANIM_OFF == 0
ANIM_ACK == 1
ANIM_NACK == 2
ANIM_RED_BLUE == 3
ANIM_TRAFFIC == 4
ANIM_MATRIX == 5
ANIM_RAINBOW == 6
ANIM_PULSE_RED == 7
ANIM_PULSE_BLUE == 8
ANIM_STROBE == 9
ANIM_FIRE == 10
ANIM_OCEAN == 11
ANIM_THINKING == 12

AnimationModes == ANIM_OFF..ANIM_THINKING

----------------------------------------------------------------------------
(* PROGMEM tables *)

RAINBOW_TABLE_SIZE == 64

SINE_LOOKUP_SIZE == 64

\* rainbowTable[64][3], 1-based here
rainbowTable == <<
  <<255,0,0>>, <<255,16,0>>, <<255,32,0>>, <<255,48,0>>, <<255,64,0>>, <<255,80,0>>,
  <<255,96,0>>, <<255,112,0>>, <<255,128,0>>, <<255,144,0>>, <<255,160,0>>,
  <<255,176,0>>, <<255,192,0>>, <<255,208,0>>, <<255,224,0>>, <<255,240,0>>,
  <<255,255,0>>, <<224,255,0>>, <<192,255,0>>, <<160,255,0>>, <<128,255,0>>, <<96,255,0>>,
  <<64,255,0>>, <<32,255,0>>, <<16,255,0>>, <<0,255,0>>, <<0,255,32>>,
  <<0,255,64>>, <<0,255,96>>, <<0,255,128>>, <<0,255,160>>, <<0,255,192>>,
  <<0,255,224>>, <<0,255,255>>, <<0,224,255>>, <<0,192,255>>, <<0,160,255>>,
  <<0,128,255>>, <<0,96,255>>, <<0,64,255>>, <<0,32,255>>, <<0,16,255>>, <<0,0,255>>,
  <<16,0,255>>, <<32,0,255>>, <<48,0,255>>, <<64,0,255>>, <<80,0,255>>,
  <<96,0,255>>, <<112,0,255>>, <<128,0,255>>, <<144,0,255>>, <<160,0,255>>,
  <<176,0,255>>, <<192,0,255>>, <<208,0,255>>, <<224,0,255>>, <<240,0,255>>,
  <<255,0,255>>, <<255,0,224>>, <<255,0,192>>, <<255,0,160>>, <<255,0,128>>, <<255,0,96>>,
  <<255,0,64>>, <<255,0,32>> >>

\* sineLookup[64], 1-based here
sineLookup == <<
  128, 140, 152, 164, 176, 187, 198, 208, 218, 227, 235, 242, 248, 252, 255,
  255, 252, 248, 242, 235, 227, 218, 208, 198, 187, 176, 164, 152, 140, 128,
  115, 103, 91, 79, 68, 57, 47, 37, 28, 20, 13, 7, 3, 0, 0,
  3, 7, 13, 20, 28, 37, 47, 57, 68, 79, 91, 103, 115, 128, 140,
  152, 164, 176, 187 >>

\* timingTable[]: {animType, interval, briefDuration}
timingTable == <<
  [animType |-> ANIM_ACK,        interval |-> 100, briefDuration |-> 300],
  [animType |-> ANIM_NACK,       interval |-> 100, briefDuration |-> 300],
  [animType |-> ANIM_RED_BLUE,   interval |-> 150, briefDuration |-> 0],
  [animType |-> ANIM_TRAFFIC,    interval |-> 800, briefDuration |-> 0],
  [animType |-> ANIM_MATRIX,     interval |-> 50,  briefDuration |-> 0],
  [animType |-> ANIM_RAINBOW,    interval |-> 50,  briefDuration |-> 0],
  [animType |-> ANIM_PULSE_RED,  interval |-> 30,  briefDuration |-> 0],
  [animType |-> ANIM_PULSE_BLUE, interval |-> 30,  briefDuration |-> 0],
  [animType |-> ANIM_STROBE,     interval |-> 100, briefDuration |-> 0],
  [animType |-> ANIM_FIRE,       interval |-> 80,  briefDuration |-> 0],
  [animType |-> ANIM_OCEAN,      interval |-> 40,  briefDuration |-> 0],
  [animType |-> ANIM_THINKING,   interval |-> 200, briefDuration |-> 0] >>

numTimings == Len(timingTable)

----------------------------------------------------------------------------
(* Strings: an Arduino String is modelled as the sequence of its characters *)

Digits == <<"0","1","2","3","4","5","6","7","8","9">>

IsDigit(c) == \E i \in 1..10 : Digits[i] = c

DigitVal(c) == (CHOOSE i \in 1..10 : Digits[i] = c) - 1

IsSpace(c) == c = " "

\* the letters of the prefixes in upper case
Upper(c) == IF c = "l" THEN "L" ELSE IF c = "e" THEN "E" ELSE IF c = "d" THEN "D" ELSE c

\* startsWith ignoring the case of the letters
StartsWith_IgnoreCase(s, prefix) ==
  /\ Len(prefix) <= Len(s)
  /\ \A i \in 1..Len(prefix) : Upper(s[i]) = Upper(prefix[i])

\* String::startsWith
StartsWith(s, prefix) ==
  /\ Len(prefix) <= Len(s)
  /\ SubSeq(s, 1, Len(prefix)) = prefix

\* String::substring(from): the characters from index `from` (0-based) to the end
Substring(s, from) == SubSeq(s, from + 1, Len(s))

\* the digits read by atol (the numbers of the lines used here fit a long)
RECURSIVE AccDigits(_, _, _)
AccDigits(s, i, acc) ==
  IF i > Len(s) \/ ~IsDigit(s[i]) THEN acc
  ELSE AccDigits(s, i + 1, acc * 10 + DigitVal(s[i]))

RECURSIVE SkipSpace(_, _)
SkipSpace(s, i) == IF i <= Len(s) /\ IsSpace(s[i]) THEN SkipSpace(s, i + 1) ELSE i

\* String::toInt: atol of the buffer (leading white space, an optional sign, then
\* digits up to the first other character; 0 when there is no digit), a long
toInt(s) ==
  LET i == SkipSpace(s, 1)
      neg == i <= Len(s) /\ s[i] = "-"
      j == IF i <= Len(s) /\ (s[i] = "-" \/ s[i] = "+") THEN i + 1 ELSE i
      mag == AccDigits(s, j, 0)
  IN IF neg THEN -mag ELSE mag

\* commands[]: {name, animationType, requiresDuration}
commands == <<
  [name |-> <<"o","f","f">>,
   animationType |-> ANIM_OFF, requiresDuration |-> FALSE],
  [name |-> <<"a","c","k">>,
   animationType |-> ANIM_ACK, requiresDuration |-> FALSE],
  [name |-> <<"n","a","c","k">>,
   animationType |-> ANIM_NACK, requiresDuration |-> FALSE],
  [name |-> <<"r","e","d","-","b","l","u","e">>,
   animationType |-> ANIM_RED_BLUE, requiresDuration |-> TRUE],
  [name |-> <<"r","e","d","-","g","r","e","e","n","-","y","e","l","l","o","w">>,
   animationType |-> ANIM_TRAFFIC, requiresDuration |-> TRUE],
  [name |-> <<"m","a","t","r","i","x">>,
   animationType |-> ANIM_MATRIX, requiresDuration |-> TRUE],
  [name |-> <<"r","a","i","n","b","o","w">>,
   animationType |-> ANIM_RAINBOW, requiresDuration |-> TRUE],
  [name |-> <<"p","u","l","s","e","-","r","e","d">>,
   animationType |-> ANIM_PULSE_RED, requiresDuration |-> TRUE],
  [name |-> <<"p","u","l","s","e","-","b","l","u","e">>,
   animationType |-> ANIM_PULSE_BLUE, requiresDuration |-> TRUE],
  [name |-> <<"s","t","r","o","b","e">>,
   animationType |-> ANIM_STROBE, requiresDuration |-> TRUE],
  [name |-> <<"f","i","r","e">>,
   animationType |-> ANIM_FIRE, requiresDuration |-> TRUE],
  [name |-> <<"o","c","e","a","n">>,
   animationType |-> ANIM_OCEAN, requiresDuration |-> TRUE],
  [name |-> <<"t","h","i","n","k","i","n","g">>,
   animationType |-> ANIM_THINKING, requiresDuration |-> TRUE] >>

numCommands == Len(commands)

\* F("LED:")
LedPrefix == <<"L","E","D",":">>

----------------------------------------------------------------------------
(* The engine *)

NoArg == <<>>

NoWrite == <<>>

\* the record of a call: its name, argument, result, the colours it handed to
\* setColor, the line it printed and the branch it took.  The observer counts the
\* update() calls that ran the switch since the last call of another method and,
\* when it records, keeps that call and the update() calls made since.  A call on
\* the engine leaves the display controller, a separate object, as it is.
Called(op, arg, ret, wr, msg, branch) ==
  /\ UNCHANGED display
  /\ call' = [op |-> op, arg |-> arg, ret |-> ret, wr |-> wr, msg |-> msg,
              branch |-> branch]
  /\ redraws' = IF op = "none" \/ observe = "nothing" THEN redraws
                ELSE IF op = "update" THEN (IF branch = "step" THEN redraws + 1 ELSE redraws)
                ELSE 0
  /\ observe' = observe
  /\ trace' = IF observe # "calls" \/ op = "none" THEN trace
              ELSE IF op = "update"
              THEN Append(trace, [op |-> op, arg |-> arg, t |-> clock, wr |-> wr,
                                  branch |-> branch])
              ELSE << [op |-> op, arg |-> arg, t |-> clock, wr |-> wr, branch |-> branch] >>

\* LEDAnimations::LEDAnimations and DisplayController::DisplayController: the
\* state after construction; nothing has been written to the pins yet (a
\* common-anode LED is dark with its pins high), the display controller holds
\* brightness 4, is enabled and has the default debug = false
Init ==
  /\ displayBrightness = 4
  /\ displayEnabled = TRUE
  /\ displayDebug = FALSE
  /\ dcall = [op |-> "new", arg |-> NoArg, ret |-> "void", wr |-> NoWrite, msg |-> ""]
  /\ animationMode = ANIM_OFF
  /\ animationEndTime = ZeroUL
  /\ lastAnimationUpdate = ZeroUL
  /\ animationStep = 0
  /\ animationInterval = 500
  /\ animationIndex = 0
  /\ animationIndex2 = 0
  /\ ackFlashState = FALSE
  /\ debugMode = FALSE
  /\ pins = <<255, 255, 255>>
  /\ clock = ZeroUL
  /\ begun = FALSE
  /\ call = [op |-> "new", arg |-> NoArg, ret |-> "void", wr |-> NoWrite, msg |-> "",
             branch |-> ""]
  /\ redraws = 0
  /\ observe \in {"nothing", "count", "calls"}
  /\ trace = <<>>

\* LEDAnimations::setColor: the values given to analogWrite (common anode, inverted)
setColor(red, green, blue) == <<255 - red, 255 - green, 255 - blue>>

\* the colour the pins show, as given to setColor
ColorOut == <<255 - pins[1], 255 - pins[2], 255 - pins[3]>>

\* LEDAnimations::getRainbowColor
getRainbowColor(index) == rainbowTable[(index % RAINBOW_TABLE_SIZE) + 1]

\* LEDAnimations::isAnimating
isAnimating == animationMode # ANIM_OFF

\* LEDAnimations::begin
Begin(debug) ==
  /\ ~begun
  /\ begun' = TRUE
  /\ debugMode' = debug
  /\ pins' = setColor(0, 0, 0)
  /\ Called("begin", NoArg, "void", << <<0, 0, 0>> >>, "", "")
  /\ UNCHANGED <<engine, clock>>

\* time passes: millis() is a 32-bit counter of milliseconds
Tick(d) ==
  /\ begun
  /\ clock' = AddUL(clock, d)
  /\ Called("none", NoArg, "void", NoWrite, "", "")
  /\ UNCHANGED <<engine, debugMode, pins, begun>>

\* the end check taking the end time itself as past
Expired_AtEndTime(currentTime) ==
  LtUL(ZeroUL, animationEndTime) /\ ~LtUL(currentTime, animationEndTime)

\* the end check without the test that an end time is set
Expired_NoSentinel(currentTime) == LtUL(animationEndTime, currentTime)

\* update(): "Check if animation should end"
Expired(currentTime) ==
  LtUL(ZeroUL, animationEndTime) /\ LtUL(animationEndTime, currentTime)

\* the interval check with the operands of the subtraction exchanged
TooSoon_Reversed(currentTime) ==
  LtUL(SubUL(lastAnimationUpdate, currentTime), UL(animationInterval))

\* update(): "Check if it's time to update animation" (unsigned long arithmetic)
TooSoon(currentTime) ==
  LtUL(SubUL(currentTime, lastAnimationUpdate), UL(animationInterval))

\* update(), case ANIM_THINKING: (uint8_t)(intensity_float * 180) for fadeStep 0, 1, 2
ThinkingBrightness(fadeStep) ==
  IF fadeStep = 0 THEN (6 * 180) \div 10
  ELSE IF fadeStep = 1 THEN 180
  ELSE (4 * 180) \div 10

\* update(), case ANIM_THINKING: the colour for the step counter; no setColor call
\* is made when colorIndex is none of 0..3
ThinkingColor(step) ==
  LET colorIndex == CRem(CDiv(step, 3), 4)
      brightness == ThinkingBrightness(CRem(step, 3))
  IN CASE colorIndex = 0 -> << <<0, brightness, 0>> >>
       [] colorIndex = 1 -> << <<brightness, 0, 0>> >>
       [] colorIndex = 2 -> << <<brightness, brightness, 0>> >>
       [] colorIndex = 3 -> << <<0, 0, brightness>> >>
       [] OTHER -> NoWrite

\* update(), case ANIM_TRAFFIC
TrafficColor(step) ==
  LET k == CRem(step, 3)
  IN CASE k = 0 -> << <<255, 0, 0>> >>
       [] k = 1 -> << <<0, 255, 0>> >>
       [] k = 2 -> << <<255, 255, 0>> >>
       [] OTHER -> NoWrite

\* the palette index taken modulo one less than the size of the table
RainbowColor_ShortCycle(step) ==
  LET colorIndex == CRem(step, RAINBOW_TABLE_SIZE - 1) % 256
  IN << getRainbowColor(colorIndex) >>

\* update(), case ANIM_RAINBOW: uint8_t colorIndex = animationStep % RAINBOW_TABLE_SIZE
RainbowColor(step) ==
  LET colorIndex == CRem(step, RAINBOW_TABLE_SIZE) % 256
  IN << getRainbowColor(colorIndex) >>

\* update(), case ANIM_ACK / ANIM_NACK: the flash colour of the mode
FlashColor(mode) == IF mode = ANIM_ACK THEN <<0, 64, 0>> ELSE <<64, 0, 0>>

\* the second intensity taken as it is, without the scaling to 0..100
OceanCyan_Unscaled(cyan_intensity) == cyan_intensity

\* update(), case ANIM_OCEAN: (uint8_t)(cyan_intensity * 100 / 255)
OceanCyan(cyan_intensity) == ((cyan_intensity * 100) \div 255) % 256

\* the writes of the fire case with a red component that can pass 255 and wrap
StepWrites_WideRed(r56, r100) ==
  IF animationMode = ANIM_FIRE
  THEN << <<(200 + r56 + (r56 \div 55)) % 256, r100 % 256, 0>> >>
  ELSE << <<0, 0, 0>> >>

\* the writes of a switch whose default case leaves a dim glow instead of black
StepWrites_OffGlow(r56, r100) ==
  IF animationMode = ANIM_OFF THEN << <<1, 1, 1>> >> ELSE << <<0, 0, 0>> >>

\* update(): the colours the switch hands to setColor for the current mode; r56 and
\* r100 are the values random(56) and random(100) return
StepWrites(r56, r100) ==
  CASE animationMode \in {ANIM_ACK, ANIM_NACK} ->
         IF animationStep = 0 THEN << FlashColor(animationMode) >>
         ELSE IF animationStep = 1 THEN << <<0, 0, 0>> >>
         ELSE NoWrite
    [] animationMode = ANIM_RED_BLUE ->
         IF CRem(animationStep, 2) = 0 THEN << <<255, 0, 0>> >> ELSE << <<0, 0, 255>> >>
    [] animationMode = ANIM_TRAFFIC -> TrafficColor(animationStep)
    [] animationMode = ANIM_MATRIX -> << <<0, sineLookup[animationIndex + 1], 0>> >>
    [] animationMode = ANIM_RAINBOW -> RainbowColor(animationStep)
    [] animationMode = ANIM_PULSE_RED -> << <<sineLookup[animationIndex + 1], 0, 0>> >>
    [] animationMode = ANIM_PULSE_BLUE -> << <<0, 0, sineLookup[animationIndex + 1]>> >>
    [] animationMode = ANIM_STROBE ->
         IF CRem(animationStep, 2) = 0 THEN << <<255, 255, 255>> >> ELSE << <<0, 0, 0>> >>
    [] animationMode = ANIM_FIRE -> << <<(200 + r56) % 256, r100 % 256, 0>> >>
    [] animationMode = ANIM_OCEAN ->
         << <<0, OceanCyan(sineLookup[animationIndex2 + 1]), sineLookup[animationIndex + 1]>> >>
    [] animationMode = ANIM_THINKING -> ThinkingColor(animationStep)
    [] OTHER -> << <<0, 0, 0>> >>

\* the pins after the writes `wr` (the last one stays)
PinsAfter(wr) ==
  IF wr = NoWrite THEN pins ELSE setColor(wr[Len(wr)][1], wr[Len(wr)][2], wr[Len(wr)][3])

\* update(): the switch on animationMode, after lastAnimationUpdate is set
RunStep(r56, r100) ==
  /\ pins' = PinsAfter(StepWrites(r56, r100))
  /\ Called("update", NoArg, "void", StepWrites(r56, r100), "", "step")
  /\ CASE animationMode \in {ANIM_ACK, ANIM_NACK} ->
            /\ animationStep' = StepInc(animationStep)
            /\ ackFlashState' = IF animationStep = 0 THEN TRUE
                                ELSE IF animationStep = 1 THEN FALSE ELSE ackFlashState
            /\ animationMode' = IF animationStep = 1 THEN ANIM_OFF ELSE animationMode
            /\ animationEndTime' = IF animationStep = 1 THEN ZeroUL ELSE animationEndTime
            /\ UNCHANGED <<animationIndex, animationIndex2>>
       [] animationMode \in {ANIM_RED_BLUE, ANIM_TRAFFIC, ANIM_RAINBOW, ANIM_STROBE,
                             ANIM_THINKING} ->
            /\ animationStep' = StepInc(animationStep)
            /\ UNCHANGED <<animationMode, animationEndTime, animationIndex,
                           animationIndex2, ackFlashState>>
       [] animationMode = ANIM_MATRIX ->
            /\ animationIndex' = (animationIndex + 1) % SINE_LOOKUP_SIZE
            /\ UNCHANGED <<animationMode, animationEndTime, animationStep,
                           animationIndex2, ackFlashState>>
       [] animationMode \in {ANIM_PULSE_RED, ANIM_PULSE_BLUE} ->
            /\ animationIndex' = (animationIndex + 2) % SINE_LOOKUP_SIZE
            /\ UNCHANGED <<animationMode, animationEndTime, animationStep,
                           animationIndex2, ackFlashState>>
       [] animationMode = ANIM_OCEAN ->
            /\ animationIndex' = (animationIndex + 1) % SINE_LOOKUP_SIZE
            /\ animationIndex2' = (animationIndex2 + 2) % SINE_LOOKUP_SIZE
            /\ UNCHANGED <<animationMode, animationEndTime, animationStep, ackFlashState>>
       [] OTHER ->
            UNCHANGED <<animationMode, animationEndTime, animationStep, animationIndex,
                        animationIndex2, ackFlashState>>

\* LEDAnimations::update
Update(r56, r100) ==
  /\ begun
  /\ LET currentTime == clock IN
       IF Expired(currentTime)
       THEN /\ animationMode' = ANIM_OFF
            /\ pins' = setColor(0, 0, 0)
            /\ Called("update", NoArg, "void", << <<0, 0, 0>> >>, "", "expired")
            /\ UNCHANGED <<animationEndTime, lastAnimationUpdate, animationStep,
                           animationInterval, animationIndex, animationIndex2,
                           ackFlashState>>
       ELSE IF TooSoon(currentTime)
       THEN /\ Called("update", NoArg, "void", NoWrite, "", "skipped")
            /\ UNCHANGED <<engine, pins>>
       ELSE /\ lastAnimationUpdate' = currentTime
            /\ RunStep(r56, r100)
            /\ UNCHANGED animationInterval
  /\ UNCHANGED <<debugMode, clock, begun>>

\* startAnimation(): the loop over timingTable from row i on: the row of the type at
\* which it breaks, 0 when it runs through
RECURSIVE ScanTimings(_, _)
ScanTimings(animType, i) ==
  IF i > numTimings THEN 0
  ELSE IF timingTable[i].animType = animType THEN i
  ELSE ScanTimings(animType, i + 1)

\* the table search begun at the second row
TimingRow_SkipsFirst(animType) == ScanTimings(animType, 2)

TimingRow(animType) == ScanTimings(animType, 1)

\* the end time with the caller's duration tested before the brief duration
EndTimeFor_DurationFirst(briefDuration, durationSeconds, now) ==
  IF durationSeconds > 0 THEN AddUL(now, UL(durationSeconds * 1000))
  ELSE IF briefDuration > 0 THEN AddUL(now, UL(briefDuration))
  ELSE ZeroUL

\* startAnimation(): the end time set from a timing row (unsigned long arithmetic)
EndTimeFor(briefDuration, durationSeconds, now) ==
  IF briefDuration > 0 THEN AddUL(now, UL(briefDuration))
  ELSE IF durationSeconds > 0 THEN AddUL(now, UL(durationSeconds * 1000))
  ELSE ZeroUL

\* startAnimation(): the debug line
StartMsg(animType, durationSeconds) ==
  IF debugMode /\ animType # ANIM_ACK /\ animType # ANIM_NACK
  THEN (IF durationSeconds > 0 THEN "started: duration" ELSE "started: brief")
  ELSE ""

\* startAnimation(): the ColorSink writes
StartWrites(animType) == IF animType = ANIM_OFF THEN << <<0, 0, 0>> >> ELSE NoWrite

\* startAnimation without the reset of the second phase index
DoStart_KeepsIndex2(animType, durationSeconds) ==
  LET row == TimingRow(animType) IN
  /\ animationMode' = animType
  /\ animationStep' = 0
  /\ animationIndex' = 0
  /\ lastAnimationUpdate' = ZeroUL
  /\ animationInterval' = IF row # 0 THEN timingTable[row].interval ELSE animationInterval
  /\ animationEndTime' =
       IF animType = ANIM_OFF THEN ZeroUL
       ELSE IF row # 0
       THEN EndTimeFor(timingTable[row].briefDuration, durationSeconds, clock)
       ELSE animationEndTime
  /\ pins' = PinsAfter(StartWrites(animType))
  /\ UNCHANGED <<animationIndex2, ackFlashState>>

\* startAnimation without the reset of the first phase index
DoStart_KeepsIndex(animType, durationSeconds) ==
  LET row == TimingRow(animType) IN
  /\ animationMode' = animType
  /\ animationStep' = 0
  /\ animationIndex2' = 0
  /\ lastAnimationUpdate' = ZeroUL
  /\ animationInterval' = IF row # 0 THEN timingTable[row].interval ELSE animationInterval
  /\ animationEndTime' =
       IF animType = ANIM_OFF THEN ZeroUL
       ELSE IF row # 0
       THEN EndTimeFor(timingTable[row].briefDuration, durationSeconds, clock)
       ELSE animationEndTime
  /\ pins' = PinsAfter(StartWrites(animType))
  /\ UNCHANGED <<animationIndex, ackFlashState>>

\* startAnimation keeping the end time of the animation before when that is the
\* later one
DoStart_KeepsLaterEnd(animType, durationSeconds) ==
  LET row == TimingRow(animType)
      end == IF animType = ANIM_OFF THEN ZeroUL
             ELSE IF row # 0
             THEN EndTimeFor(timingTable[row].briefDuration, durationSeconds, clock)
             ELSE animationEndTime
  IN
  /\ animationMode' = animType
  /\ animationStep' = 0
  /\ animationIndex' = 0
  /\ animationIndex2' = 0
  /\ lastAnimationUpdate' = ZeroUL
  /\ animationInterval' = IF row # 0 THEN timingTable[row].interval ELSE animationInterval
  /\ animationEndTime' = IF LtUL(end, animationEndTime) THEN animationEndTime ELSE end
  /\ pins' = PinsAfter(StartWrites(animType))
  /\ UNCHANGED ackFlashState

\* startAnimation without the reset of the step counter
DoStart_KeepsStep(animType, durationSeconds) ==
  LET row == TimingRow(animType) IN
  /\ animationMode' = animType
  /\ animationIndex' = 0
  /\ animationIndex2' = 0
  /\ lastAnimationUpdate' = ZeroUL
  /\ animationInterval' = IF row # 0 THEN timingTable[row].interval ELSE animationInterval
  /\ animationEndTime' =
       IF animType = ANIM_OFF THEN ZeroUL
       ELSE IF row # 0
       THEN EndTimeFor(timingTable[row].briefDuration, durationSeconds, clock)
       ELSE animationEndTime
  /\ pins' = PinsAfter(StartWrites(animType))
  /\ UNCHANGED <<animationStep, ackFlashState>>

\* LEDAnimations::startAnimation, on the engine and the pins
DoStart(animType, durationSeconds) ==
  LET row == TimingRow(animType) IN
  /\ animationMode' = animType
  /\ animationStep' = 0
  /\ animationIndex' = 0
  /\ animationIndex2' = 0
  /\ lastAnimationUpdate' = ZeroUL
  /\ animationInterval' = IF row # 0 THEN timingTable[row].interval ELSE animationInterval
  /\ animationEndTime' =
       IF animType = ANIM_OFF THEN ZeroUL
       ELSE IF row # 0
       THEN EndTimeFor(timingTable[row].briefDuration, durationSeconds, clock)
       ELSE animationEndTime
  /\ pins' = PinsAfter(StartWrites(animType))
  /\ UNCHANGED ackFlashState

\* LEDAnimations::startAnimation
StartAnimation(animType, durationSeconds) ==
  /\ begun
  /\ DoStart(animType, durationSeconds)
  /\ Called("startAnimation", <<animType, durationSeconds>>, "void",
            StartWrites(animType), StartMsg(animType, durationSeconds), "")
  /\ UNCHANGED <<debugMode, clock, begun>>

\* LEDAnimations::flashAck
FlashAck ==
  /\ begun
  /\ DoStart(ANIM_ACK, 0)
  /\ Called("flashAck", NoArg, "void", StartWrites(ANIM_ACK), StartMsg(ANIM_ACK, 0), "")
  /\ UNCHANGED <<debugMode, clock, begun>>

\* LEDAnimations::flashNack
FlashNack ==
  /\ begun
  /\ DoStart(ANIM_NACK, 0)
  /\ Called("flashNack", NoArg, "void", StartWrites(ANIM_NACK), StartMsg(ANIM_NACK, 0), "")
  /\ UNCHANGED <<debugMode, clock, begun>>

\* LEDAnimations::off, on the engine and the pins
DoOff ==
  /\ animationMode' = ANIM_OFF
  /\ animationEndTime' = ZeroUL
  /\ pins' = setColor(0, 0, 0)
  /\ UNCHANGED <<lastAnimationUpdate, animationStep, animationInterval, animationIndex,
                 animationIndex2, ackFlashState>>

\* LEDAnimations::off
Off ==
  /\ begun
  /\ DoOff
  /\ Called("off", NoArg, "void", << <<0, 0, 0>> >>, "", "")
  /\ UNCHANGED <<debugMode, clock, begun>>

----------------------------------------------------------------------------
(* The command lines given to processCommand *)

\* String(n) for a long n: its decimal digits, with a leading '-' when negative
RECURSIVE DecimalDigits(_)
DecimalDigits(n) ==
  IF n < 10 THEN <<Digits[n + 1]>> ELSE DecimalDigits(n \div 10) \o <<Digits[(n % 10) + 1]>>

Decimal(n) == IF n < 0 THEN <<"-">> \o DecimalDigits(-n) ELSE DecimalDigits(n)

\* the line "LED:<name> <secs>"
LedLine(name, secs) == LedPrefix \o name \o <<" ">> \o Decimal(secs)

\* the names of the table entries that take a duration
DurationNames == {commands[i].name : i \in {j \in 1..numCommands : commands[j].requiresDuration}}

\* the table entry of a name
EntryOf(name) == CHOOSE i \in 1..numCommands : commands[i].name = name

Thinking == commands[13].name

Matrix == commands[6].name

\* lines with a positive duration: every name with 1, and larger numbers
GoodLines ==
  {LedLine(n, 1) : n \in DurationNames}
    \cup {LedLine(Thinking, 20), LedLine(Matrix, 32767), LedLine(Matrix, 40000),
          LedLine(Matrix, 65537)}

\* lines of table entries without a duration
PlainLines == {LedPrefix \o commands[i].name : i \in {j \in 1..numCommands : ~commands[j].requiresDuration}}

\* duration commands whose argument is missing, unparsable, zero or negative
BadDurationLines == {
  <<"L","E","D",":","m","a","t","r","i","x"," ","0">>,
  <<"L","E","D",":","m","a","t","r","i","x"," ","a","b","c">>,
  <<"L","E","D",":","m","a","t","r","i","x">>,
  <<"L","E","D",":","m","a","t","r","i","x"," ","-","3">>,
  <<"L","E","D",":","f","i","r","e"," ","x","2">>,
  LedLine(Matrix, -65535) }

\* lines under the LED prefix that match no table entry
UnknownLines == {
  <<"L","E","D",":","b","o","g","u","s">>,
  <<"L","E","D",":","a","c","k"," ","5">>,
  <<"L","E","D",":","O","F","F">>,
  <<"L","E","D",":","r","a","i","n","b","o","w","5">> }

\* lines without the LED prefix
ForeignLines == {
  <<"D","I","S","P",":","a","n","y","t","h","i","n","g">>,
  <<"l","e","d",":","m","a","t","r","i","x"," ","5">>,
  <<"L","E","D">>,
  <<" ","L","E","D",":","a","c","k">> }

Lines == GoodLines \cup PlainLines \cup BadDurationLines \cup UnknownLines \cup ForeignLines

----------------------------------------------------------------------------
(* The command router *)

\* the match with every name taken as a prefix of the parameter
Matches_Prefix(param, i) ==
  IF commands[i].requiresDuration
  THEN StartsWith(param, commands[i].name \o <<" ">>)
  ELSE StartsWith(param, commands[i].name)

\* processCommand(): whether the table entry i matches the parameter
Matches(param, i) ==
  IF commands[i].requiresDuration
  THEN StartsWith(param, commands[i].name \o <<" ">>)
  ELSE param = commands[i].name

\* processCommand(): the loop over the table from entry i on: the entry it stops at,
\* 0 when it runs through
RECURSIVE ScanCommands(_, _)
ScanCommands(param, i) ==
  IF i > numCommands THEN 0
  ELSE IF Matches(param, i) THEN i
  ELSE ScanCommands(param, i + 1)

\* processCommand(): the entry the loop stops at, tabulated once for the parameter
\* of each line given
LoopResult == [param \in {Substring(c, 4) : c \in Lines} |-> ScanCommands(param, 1)]

FirstMatch(param) == LoopResult[param]

\* processCommand(): int duration = param.substring(cmdNameStr.length()).toInt()
Duration(param, i) == ToInt16(toInt(Substring(param, Len(commands[i].name) + 1)))

\* LEDAnimations::processCommand
ProcessCommand(command) ==
  /\ begun
  /\ IF ~StartsWith(command, LedPrefix)
     THEN /\ Called("processCommand", command, "false", NoWrite, "", "no prefix")
          /\ UNCHANGED <<engine, pins>>
     ELSE \E param \in {Substring(command, 4)} : \E i \in {FirstMatch(param)} :
             IF i = 0
             THEN /\ Called("processCommand", command, "true", NoWrite,
                            IF debugMode THEN "help" ELSE "", "no match")
                  /\ UNCHANGED <<engine, pins>>
             ELSE IF commands[i].requiresDuration
             THEN \E duration \in {Duration(param, i)} :
                  IF duration > 0
                  THEN /\ DoStart(commands[i].animationType, duration)
                       /\ Called("processCommand", command, "true",
                                 StartWrites(commands[i].animationType),
                                 StartMsg(commands[i].animationType, duration), "start")
                  ELSE /\ Called("processCommand", command, "true", NoWrite,
                                 IF debugMode THEN "invalid duration" ELSE "",
                                 "invalid duration")
                       /\ UNCHANGED <<engine, pins>>
             ELSE IF commands[i].animationType = ANIM_OFF
             THEN /\ DoOff
                  /\ Called("processCommand", command, "true", << <<0, 0, 0>> >>, "", "off")
             ELSE /\ DoStart(commands[i].animationType, 0)
                  /\ Called("processCommand", command, "true",
                            StartWrites(commands[i].animationType),
                            StartMsg(commands[i].animationType, 0), "start")
  /\ UNCHANGED <<debugMode, clock, begun>>

----------------------------------------------------------------------------
(* Inputs and bounds *)

\* the number of whole seconds over which calls are made
MaxSecs == 1

\* the number of whole seconds over which commands are given
MaxCmdSecs == 1

\* the offsets into a second at which calls are made: a gap of 20 ms is below every
\* mode's interval, a gap of 40 ms reaches the intervals of 30 and 40 ms
Fine == {0, 20, 40}

\* the clock values at which calls are made
Instants == {sec * 1000 + f : sec \in 0..MaxSecs, f \in Fine}

\* sample values of the pair random(56), random(100)
Rand == {<<0, 0>>, <<55, 99>>}

\* durations given to startAnimation by a direct caller
Durations == {0, 1}

\* the clock values at which the command router is called
CmdInstants == {sec * 1000 : sec \in 0..MaxCmdSecs}

----------------------------------------------------------------------------
(* Specifications *)

InitPlain == Init /\ observe = "count"

InitObserved == Init /\ observe = "calls"

InitUnobserved == Init /\ observe = "nothing"

Setup == \E debug \in BOOLEAN : Begin(debug)

Pass == \E t \in Instants : clock[1] = 0 /\ t > clock[2] /\ Tick(UL(t - clock[2]))

Poll == \E r \in Rand : Update(r[1], r[2])

Start == \E animType \in AnimationModes, durationSeconds \in Durations :
           StartAnimation(animType, durationSeconds)

Command == \E command \in Lines : ProcessCommand(command)

\* the engine under its direct callers: every mode, with and without a duration
Next ==
  \/ Setup
  \/ Pass
  \/ Poll
  \/ Start
  \/ FlashAck
  \/ FlashNack
  \/ Off

Spec == InitPlain /\ [][Next]_vars

PassCmd == \E t \in CmdInstants : clock[1] = 0 /\ t > clock[2] /\ Tick(UL(t - clock[2]))

\* the engine under the command router
NextCmd ==
  \/ Setup
  \/ PassCmd
  \/ Poll
  \/ Command

SpecCmd == InitPlain /\ [][NextCmd]_vars

----------------------------------------------------------------------------
(* The acknowledgment flash, observed: flashAck()/startAnimation(ANIM_ACK, 0) at
   several clock values, followed by update() calls *)

MaxUpdates == 2

AckInstants == {0, 50, 100, 150, 200, 450, 600}

PassAck == \E t \in AckInstants : clock[1] = 0 /\ t > clock[2] /\ Tick(UL(t - clock[2]))

StartAck == StartAnimation(ANIM_ACK, 0)

PollAck == Len(trace) < MaxUpdates + 1 /\ Poll

NextAck ==
  \/ Setup
  \/ PassAck
  \/ StartAck
  \/ PollAck

SpecAck == InitObserved /\ [][NextAck]_vars

----------------------------------------------------------------------------
(* Every mode over the span of a flash: calls spaced so that Ack and Nack run
   through both steps (100 ms apart), are cut off (after 300 ms), and a one-second
   animation runs out *)

FlashInstants == {0, 50, 100, 200, 450, 1100}

PassFlash ==
  \E t \in FlashInstants : clock[1] = 0 /\ t > clock[2] /\ Tick(UL(t - clock[2]))

NextFlash ==
  \/ Setup
  \/ PassFlash
  \/ Poll
  \/ Start
  \/ FlashAck
  \/ FlashNack
  \/ Off

SpecFlash == InitPlain /\ [][NextFlash]_vars

----------------------------------------------------------------------------
(* A duration animation started close to the maximum of millis() *)

\* clock values in the order in which they pass: 2^32 - 10006, 2^32 - 10000,
\* 2^32 - 9850, 2^32 - 1, and after the counter has wrapped 150 and 9000
WrapTimes ==
  << ZeroUL, <<65535, 55530>>, <<65535, 55536>>, <<65535, 55686>>, <<65535, 65535>>,
     <<0, 150>>, <<0, 9000>> >>

PassWrap ==
  \E i \in 1..Len(WrapTimes), j \in 1..Len(WrapTimes) :
    /\ i < j
    /\ clock = WrapTimes[i]
    /\ Tick(SubUL(WrapTimes[j], clock))

StartRedBlue == StartAnimation(ANIM_RED_BLUE, 10)

NextWrap ==
  \/ Setup
  \/ PassWrap
  \/ StartRedBlue
  \/ Poll

SpecWrap == InitPlain /\ [][NextWrap]_vars

\* the flashes started close to the maximum of millis()
NextFlashWrap ==
  \/ Setup
  \/ PassWrap
  \/ FlashAck
  \/ FlashNack
  \/ Poll

SpecFlashWrap == InitPlain /\ [][NextFlashWrap]_vars

----------------------------------------------------------------------------
(* One rainbow animation, observed: started once, then update() called each time
   the interval of the mode has passed *)

MaxRedraws == 144

RainbowSecs == {5, 7}

StartRainbow ==
  /\ call.op = "begin"
  /\ \E durationSeconds \in RainbowSecs : StartAnimation(ANIM_RAINBOW, durationSeconds)

WaitRainbow ==
  /\ call.op \in {"startAnimation", "update"}
  /\ Len(trace) <= MaxRedraws
  /\ Tick(UL(animationInterval))

PollRainbow == call.op = "none" /\ Poll

NextRainbow ==
  \/ Setup
  \/ StartRainbow
  \/ WaitRainbow
  \/ PollRainbow

SpecRainbow == InitObserved /\ [][NextRainbow]_vars

----------------------------------------------------------------------------
(* One thinking animation run for as long as the step counter takes to pass INT_MAX:
   started once, then update() called each time the interval of the mode has passed *)

MaxThinkingRedraws == 32770

ThinkingSecs == {0, 7000}

StartThinking ==
  /\ call.op = "begin"
  /\ \E durationSeconds \in ThinkingSecs : StartAnimation(ANIM_THINKING, durationSeconds)

WaitThinking ==
  /\ call.op \in {"startAnimation", "update"}
  /\ redraws <= MaxThinkingRedraws
  /\ Tick(UL(animationInterval))

PollThinking == call.op = "none" /\ Poll

NextThinking ==
  \/ Setup
  \/ StartThinking
  \/ WaitThinking
  \/ PollThinking

SpecThinking == InitPlain /\ [][NextThinking]_vars

----------------------------------------------------------------------------
(* One traffic animation run for as long as the step counter takes to pass INT_MAX:
   started once, then update() called each time the interval of the mode has passed *)

MaxTrafficRedraws == 32771

StartTraffic ==
  /\ call.op = "begin"
  /\ StartAnimation(ANIM_TRAFFIC, 0)

WaitTraffic ==
  /\ call.op \in {"startAnimation", "update"}
  /\ redraws <= MaxTrafficRedraws
  /\ Tick(UL(animationInterval))

PollTraffic == call.op = "none" /\ Poll

NextTraffic ==
  \/ Setup
  \/ StartTraffic
  \/ WaitTraffic
  \/ PollTraffic

SpecTraffic == InitPlain /\ [][NextTraffic]_vars

----------------------------------------------------------------------------
(* Properties of update()'s interval check *)

\* the fields of the engine and the pins after a step are those before it
SameEngine == UNCHANGED <<animationMode, animationEndTime, lastAnimationUpdate,
                          animationStep, animationInterval, animationIndex,
                          animationIndex2, ackFlashState, pins>>

\* now - lastAnimationUpdate < animationInterval, at the time of the call
WithinInterval == LtUL(SubUL(clock, lastAnimationUpdate), UL(animationInterval))

\* an end time is set and now is past it, at the time of the call
PastEndTime == animationEndTime # ZeroUL /\ LtUL(animationEndTime, clock)

\* C1 as stated: every update() made with now - lastAnimationUpdate < animationInterval
\* leaves the output and the counters unchanged.
C1_AsStated ==
  [][(call'.op = "update" /\ WithinInterval) => SameEngine]_vars

\* C1, amended: an update() made with now - lastAnimationUpdate < animationInterval
\* and not past a set end time writes nothing and leaves the output and every field
\* of the engine unchanged; past the end time the expiry branch runs first.
C1_NoOpWithinInterval ==
  [][(call'.op = "update" /\ WithinInterval /\ ~PastEndTime)
       => (SameEngine /\ call'.wr = NoWrite)]_vars

\* a pulse animation has redrawn and a later update(), 20 ms on, was skipped
C1_Witness ==
  /\ call.op = "update" /\ call.branch = "skipped"
  /\ animationMode = ANIM_PULSE_RED
  /\ lastAnimationUpdate # ZeroUL /\ lastAnimationUpdate # clock
  /\ animationIndex = 2

----------------------------------------------------------------------------
(* Properties of startAnimation()'s end time *)

\* C10: for Ack and Nack, startAnimation(mode, d) sets animationEndTime to now + 300
\* (in unsigned long arithmetic) whatever d is.
C10_BriefDurationWins ==
  (call.op = "startAnimation" /\ call.arg[1] \in {ANIM_ACK, ANIM_NACK})
    => animationEndTime = AddUL(clock, UL(300))

\* Nack was started with a duration of 1 second and ends 300 ms on
C10_Witness ==
  /\ call.op = "startAnimation" /\ call.arg = <<ANIM_NACK, 1>>
  /\ clock = UL(1020) /\ animationEndTime = UL(1320)

----------------------------------------------------------------------------
(* Properties of the command router *)

\* the line begins with the characters of p
HasPrefix(line, p) == Len(line) >= Len(p) /\ SubSeq(line, 1, Len(p)) = p

\* the line after its first four characters
Rest(line) == SubSeq(line, 5, Len(line))

\* no table entry is named by the text: none without a duration equals it, and none
\* with a duration, followed by a space, begins it
NamesNoEntry(text) ==
  \A i \in 1..numCommands :
    IF commands[i].requiresDuration
    THEN ~HasPrefix(text, commands[i].name \o <<" ">>)
    ELSE text # commands[i].name

\* the lines given that have the prefix "LED:" and a remainder that names no entry
UnmatchedLines == {c \in Lines : HasPrefix(c, LedPrefix) /\ NamesNoEntry(Rest(c))}

\* the lines given that do not have the prefix "LED:"
UnprefixedLines == {c \in Lines : ~HasPrefix(c, LedPrefix)}

\* the interval of a mode in the timing table
IntervalOf(mode) ==
  timingTable[CHOOSE i \in 1..numTimings : timingTable[i].animType = mode].interval

\* the positive durations of the lines given
PositiveSecs == {1, 20, 32767, 40000, 65537}

\* C6 as stated: "LED:<name> <secs>" with a positive secs is handled and leaves the
\* engine in the table's mode, counters 0, the mode's interval, and the end time
\* now + secs * 1000.
C6_AsStated ==
  \A n \in DurationNames, secs \in PositiveSecs :
    (call.op = "processCommand" /\ call.arg = LedLine(n, secs))
      => /\ call.ret = "true"
         /\ animationMode = commands[EntryOf(n)].animationType
         /\ animationStep = 0 /\ animationIndex = 0 /\ animationIndex2 = 0
         /\ animationInterval = IntervalOf(animationMode)
         /\ animationEndTime = AddUL(clock, UL(secs * 1000))

\* C7 as stated: a duration command whose argument is missing, unparsable, zero or
\* negative is handled, changes no field and writes nothing.
C7_AsStated ==
  [][(call'.op = "processCommand" /\ call'.arg \in BadDurationLines)
       => (call'.ret = "true" /\ SameEngine /\ call'.wr = NoWrite)]_vars

\* C8: a line with the prefix "LED:" whose remainder names no table entry is handled
\* and leaves the animation state and the pins unchanged.
C8_UnknownSwallowed ==
  [][(call'.op = "processCommand" /\ call'.arg \in UnmatchedLines)
       => (call'.ret = "true" /\ SameEngine /\ call'.wr = NoWrite)]_vars

\* "LED:ack 5" was given while a matrix animation ran, and it still runs
C8_Witness ==
  /\ call.op = "processCommand"
  /\ call.arg = <<"L","E","D",":","a","c","k"," ","5">>
  /\ call.ret = "true"
  /\ animationMode = ANIM_MATRIX /\ animationIndex = 1

\* C9: a line without the exact prefix "LED:" is not handled, changes no field of
\* the animation state and writes nothing.
C9_ForeignNotHandled ==
  [][(call'.op = "processCommand" /\ call'.arg \in UnprefixedLines)
       => (call'.ret = "false" /\ SameEngine /\ call'.wr = NoWrite)]_vars

\* "led:matrix 5" was given while a thinking animation ran, and it still runs
C9_Witness ==
  /\ call.op = "processCommand"
  /\ call.arg = <<"l","e","d",":","m","a","t","r","i","x"," ","5">>
  /\ call.ret = "false"
  /\ animationMode = ANIM_THINKING /\ animationStep = 1

----------------------------------------------------------------------------
(* Properties of the animations over time *)

\* the two update() calls that follow a start are at least 100 ms apart
TwoSpacedUpdates ==
  /\ Len(trace) = 3
  /\ trace[1].op = "startAnimation" /\ trace[1].arg = <<ANIM_ACK, 0>>
  /\ ~LtUL(SubUL(trace[3].t, trace[2].t), UL(100))

\* C2 as stated: after startAnimation(ANIM_ACK, 0) at any clock value, two successive
\* update() calls at least 100 ms apart write (0,64,0) and then (0,0,0), and
\* isAnimating() is false after the second.
C2_AsStated ==
  TwoSpacedUpdates
    => /\ trace[2].wr = << <<0, 64, 0>> >>
       /\ trace[3].wr = << <<0, 0, 0>> >>
       /\ ~isAnimating

\* C3 as stated: after startAnimation(ANIM_RED_BLUE, 10), an update() at a time
\* greater than animationEndTime sets the output to (0,0,0) and ends the animation.
C3_AsStated ==
  [][(call'.op = "update" /\ animationMode = ANIM_RED_BLUE
        /\ LtUL(animationEndTime, clock))
       => (animationMode' = ANIM_OFF /\ ColorOut' = <<0, 0, 0>>)]_vars

\* the observed calls are a start of the rainbow animation and the update() calls
\* that followed, each one interval after the one before
RainbowRun(secs) ==
  /\ trace # <<>>
  /\ trace[1].op = "startAnimation"
  /\ trace[1].arg = <<ANIM_RAINBOW, secs>>

\* C4 as stated: after startAnimation(ANIM_RAINBOW, 5) the colours written by 64
\* successive on-interval update() calls are, in order, those written by the next 64.
C4_AsStated ==
  RainbowRun(5)
    => \A k \in 1..64 :
         Len(trace) >= 1 + k + 64 => trace[1 + k + 64].wr = trace[1 + k].wr

\* C4, amended: in a rainbow animation the redraw made 64 redraws after another
\* writes the same colour, as long as neither update() comes after the end time;
\* with a duration of 5 seconds and the interval of 50 ms the end time comes before
\* the 102nd on-interval update(), so the second run of 64 is cut short by (0,0,0).
C4_PeriodUntilEndTime ==
  /\ \A secs \in RainbowSecs :
       RainbowRun(secs)
         => \A j \in 2..(Len(trace) - 64) :
              (trace[j].branch = "step" /\ trace[j + 64].branch = "step")
                => trace[j + 64].wr = trace[j].wr
  /\ RainbowRun(5)
       => \A j \in 103..Len(trace) : trace[j].wr = << <<0, 0, 0>> >>

\* a 7 second rainbow has redrawn 128 times and the last colour is the one written
\* 64 redraws before, and not black
C4_Witness ==
  /\ RainbowRun(7)
  /\ Len(trace) = 129
  /\ trace[129].branch = "step" /\ trace[65].branch = "step"
  /\ trace[129].wr = trace[65].wr
  /\ trace[129].wr # << <<0, 0, 0>> >>
  /\ redraws = 128

\* the colour of the k-th redraw of the thinking animation, as the claim gives it
ThinkingCycle(k) ==
  LET level == IF k % 3 = 0 THEN 108 ELSE IF k % 3 = 1 THEN 180 ELSE 72
      colour == (k \div 3) % 4
  IN IF colour = 0 THEN <<0, level, 0>>
     ELSE IF colour = 1 THEN <<level, 0, 0>>
     ELSE IF colour = 2 THEN <<level, level, 0>>
     ELSE <<0, 0, level>>

\* C5 as stated: the k-th on-interval update() of the thinking animation (k = 0, 1,
\* ...) writes colour (k div 3) mod 4 of green, red, yellow, blue at brightness 108,
\* 180, 72 for k mod 3 = 0, 1, 2.
C5_AsStated ==
  (call.op = "update" /\ call.branch = "step" /\ animationMode = ANIM_THINKING)
    => call.wr = << ThinkingCycle(redraws - 1) >>

----------------------------------------------------------------------------
(* Properties of starting and stopping *)

\* the end time that (mode, d, now) determine: now + 300 for the flashes, now +
\* d * 1000 for a positive d, and none otherwise
EndTimeOf(mode, d, now) ==
  IF mode \in {ANIM_ACK, ANIM_NACK} THEN AddUL(now, UL(300))
  ELSE IF mode # ANIM_OFF /\ d > 0 THEN AddUL(now, UL(d * 1000))
  ELSE ZeroUL

\* the counters and times are those a start leaves, whatever they were before
CountersReset(mode, d) ==
  /\ animationMode' = mode
  /\ animationStep' = 0 /\ animationIndex' = 0 /\ animationIndex2' = 0
  /\ lastAnimationUpdate' = ZeroUL
  /\ animationEndTime' = EndTimeOf(mode, d, clock)

C12_AsStated ==
  [][call'.op = "off"
       => /\ CountersReset(ANIM_OFF, 0)
          /\ call'.wr = << <<0, 0, 0>> >>]_vars

----------------------------------------------------------------------------
(* Properties of update() after a start *)

\* C13 as stated: update() with an end time set and now > animationEndTime sets the
\* mode to Off, writes (0,0,0), clears the end time and runs no step function.
C13_AsStated ==
  [][(call'.op = "update" /\ PastEndTime)
       => /\ animationMode' = ANIM_OFF
          /\ call'.wr = << <<0, 0, 0>> >>
          /\ animationEndTime' = ZeroUL
          /\ UNCHANGED <<animationStep, animationIndex, animationIndex2,
                         lastAnimationUpdate>>]_vars

\* C14 as stated: after a start of a mode other than Off, an update() made before
\* any redraw and not past the end time runs the step function and redraws, at any
\* clock value.
C14_AsStated ==
  [][(call'.op = "update" /\ animationMode # ANIM_OFF /\ redraws = 0 /\ ~PastEndTime)
       => (call'.wr # NoWrite /\ lastAnimationUpdate' = clock)]_vars

\* the update() made is the second step of a flash: mode Ack or Nack, step counter 1
SecondFlashStep == animationMode \in {ANIM_ACK, ANIM_NACK} /\ animationStep = 1

\* C15 as stated: update() changes the mode from a non-Off mode to Off only when an
\* end time is set and now is past it.
C15_AsStated ==
  [][(call'.op = "update" /\ animationMode # ANIM_OFF /\ animationMode' = ANIM_OFF)
       => PastEndTime]_vars

\* C15, amended: update() changes the mode from a non-Off mode to Off only in its
\* expiry branch (end time set and now past it) or in the second step of Ack or
\* Nack (step counter 1), which writes (0,0,0) and clears the end time; no step of
\* another mode ends an animation.
C15_EndsByExpiryOrFlash ==
  [][(call'.op = "update" /\ animationMode # ANIM_OFF /\ animationMode' = ANIM_OFF)
       => \/ PastEndTime
          \/ /\ SecondFlashStep
             /\ call'.wr = << <<0, 0, 0>> >>
             /\ animationEndTime' = ZeroUL]_vars

\* a flash has ended by its second step, 100 ms after the first and before
\* its end time
C15_Witness ==
  /\ call.op = "update" /\ call.branch = "step"
  /\ animationMode = ANIM_OFF /\ animationStep = 2
  /\ ColorOut = <<0, 0, 0>> /\ ~ackFlashState
  /\ animationEndTime = ZeroUL
  /\ lastAnimationUpdate = UL(200) /\ clock = UL(200)
  /\ redraws = 2

\* the modes that run until stopped when started without a duration
LastingModes == AnimationModes \ {ANIM_OFF, ANIM_ACK, ANIM_NACK}

\* C16: startAnimation(mode, 0) for a mode without a brief duration sets no end
\* time, and an update() at any clock value leaves such an animation in its mode
\* with no end time; only off() or a start changes the mode.
C16_RunsUntilStopped ==
  [][/\ (call'.op = "startAnimation" /\ call'.arg[1] \in LastingModes
           /\ call'.arg[2] = 0)
          => (animationMode' = call'.arg[1] /\ animationEndTime' = ZeroUL)
     /\ (call'.op = "update" /\ animationMode \in LastingModes
           /\ animationEndTime = ZeroUL)
          => (animationMode' = animationMode /\ animationEndTime' = ZeroUL)]_vars

\* a traffic animation without end time makes its first redraw at 1100 ms
C16_Witness ==
  /\ call.op = "update" /\ call.wr = << <<255, 0, 0>> >>
  /\ animationMode = ANIM_TRAFFIC /\ animationEndTime = ZeroUL
  /\ animationStep = 1 /\ redraws = 1
  /\ clock = UL(1100)

\* c is a colour that the mode's step function writes at step 0 with both phase
\* indices 0 (for Fire: red 200..255, green 0..99, blue 0)
StepZeroColour(mode, c) ==
  CASE mode = ANIM_ACK -> c = <<0, 64, 0>>
    [] mode = ANIM_NACK -> c = <<64, 0, 0>>
    [] mode = ANIM_RED_BLUE -> c = <<255, 0, 0>>
    [] mode = ANIM_TRAFFIC -> c = <<255, 0, 0>>
    [] mode = ANIM_MATRIX -> c = <<0, sineLookup[1], 0>>
    [] mode = ANIM_RAINBOW -> c = rainbowTable[1]
    [] mode = ANIM_PULSE_RED -> c = <<sineLookup[1], 0, 0>>
    [] mode = ANIM_PULSE_BLUE -> c = <<0, 0, sineLookup[1]>>
    [] mode = ANIM_STROBE -> c = <<255, 255, 255>>
    [] mode = ANIM_FIRE -> c[1] \in 200..255 /\ c[2] \in 0..99 /\ c[3] = 0
    [] mode = ANIM_OCEAN -> c = <<0, (sineLookup[1] * 100) \div 255, sineLookup[1]>>
    [] mode = ANIM_THINKING -> c = <<0, 108, 0>>
    [] OTHER -> FALSE

\* C17: after startAnimation(m, d), flashAck(), flashNack() or off(), whatever ran
\* before, an update() made before any redraw writes nothing, (0,0,0), or a colour of
\* mode m's step function at step 0; a colour of the previous mode or its counters
\* is not written.
C17_CancelImmediate ==
  [][(call'.op = "update" /\ redraws = 0 /\ call'.wr # NoWrite)
       => /\ Len(call'.wr) = 1
          /\ \/ call'.wr[1] = <<0, 0, 0>>
             \/ StepZeroColour(animationMode, call'.wr[1])]_vars

\* an ocean animation started over a flash that was showing its colour has made its
\* first redraw
C17_Witness ==
  /\ call.op = "update" /\ redraws = 1
  /\ animationMode = ANIM_OCEAN
  /\ ackFlashState
  /\ StepZeroColour(ANIM_OCEAN, call.wr[1])
  /\ animationIndex = 1 /\ animationIndex2 = 2

\* C18: in every reachable state with a mode other than Off, animationInterval is
\* greater than 0 and is the interval of that mode in the timing table.
C18_IntervalOfMode ==
  animationMode # ANIM_OFF
    => (animationInterval > 0 /\ animationInterval = IntervalOf(animationMode))

\* a thinking animation started over a flash (interval 100) runs with interval 200
C18_Witness ==
  /\ animationMode = ANIM_THINKING /\ animationInterval = 200
  /\ ackFlashState
  /\ call.op = "startAnimation"

----------------------------------------------------------------------------
(* Properties of the flashes and of the traffic animation over time *)

\* the time since the start of the running flash is more than 300 ms: the start
\* was 300 ms before the end time it set
FlashOverdue ==
  /\ animationMode \in {ANIM_ACK, ANIM_NACK}
  /\ LtUL(UL(300), SubUL(clock, SubUL(animationEndTime, UL(300))))

\* C19 as stated: an update() made more than 300 ms after the start of an Ack or
\* Nack leaves the mode Off and the output (0,0,0), and once the mode is Off an
\* update() writes no colour other than (0,0,0).
C19_AsStated ==
  [][/\ (call'.op = "update" /\ FlashOverdue)
          => (animationMode' = ANIM_OFF /\ ColorOut' = <<0, 0, 0>>)
     /\ (call'.op = "update" /\ animationMode = ANIM_OFF)
          => (animationMode' = ANIM_OFF /\ ColorOut' = <<0, 0, 0>>)]_vars

\* the colour that follows c in the order red, green, yellow
AfterInCycle(c) ==
  IF c = <<255, 0, 0>> THEN <<0, 255, 0>>
  ELSE IF c = <<0, 255, 0>> THEN <<255, 255, 0>>
  ELSE <<255, 0, 0>>

\* C20 as stated: every on-interval update() of the traffic animation writes one of
\* red, green, yellow, and the colour written follows the one written before in
\* the order red -> green -> yellow, for every number of steps.
C20_AsStated ==
  [][(call'.op = "update" /\ animationMode = ANIM_TRAFFIC /\ ~WithinInterval
        /\ ~PastEndTime)
       => /\ Len(call'.wr) = 1
          /\ call'.wr[1] \in {<<255, 0, 0>>, <<0, 255, 0>>, <<255, 255, 0>>}
          /\ redraws > 0 => call'.wr[1] = AfterInCycle(ColorOut)]_vars

----------------------------------------------------------------------------
(* One red-blue or strobe animation run for as long as the step counter takes to
   pass INT_MAX: started once, then update() called each time the interval of the
   mode has passed *)

MaxParityRedraws == 32770

ParityModes == {ANIM_RED_BLUE, ANIM_STROBE}

ParitySecs == {0, 5000}

StartParity ==
  /\ call.op = "begin"
  /\ \E animType \in ParityModes, durationSeconds \in ParitySecs :
       StartAnimation(animType, durationSeconds)

WaitParity ==
  /\ call.op \in {"startAnimation", "update"}
  /\ redraws <= MaxParityRedraws
  /\ Tick(UL(animationInterval))

PollParity == call.op = "none" /\ Poll

NextParity ==
  \/ Setup
  \/ StartParity
  \/ WaitParity
  \/ PollParity

SpecParity == InitPlain /\ [][NextParity]_vars

\* the colour of the k-th redraw of the red-blue and strobe animations, as the
\* claim gives it
ParityColour(mode, k) ==
  IF mode = ANIM_RED_BLUE
  THEN (IF k % 2 = 0 THEN <<255, 0, 0>> ELSE <<0, 0, 255>>)
  ELSE (IF k % 2 = 0 THEN <<255, 255, 255>> ELSE <<0, 0, 0>>)

\* C21: the k-th on-interval update() after the start (k = 0, 1, ...) of a red-blue
\* animation writes (255,0,0) for even k and (0,0,255) for odd k, that of a strobe
\* animation (255,255,255) for even k and (0,0,0) for odd k; the first redraw
\* (k = 0) writes the even colour.
C21_ParityOfRedraws ==
  (call.op = "update" /\ call.branch = "step" /\ animationMode \in ParityModes)
    => call.wr = << ParityColour(animationMode, redraws - 1) >>

\* redraw number INT_MAX + 2 (k = 32769, the step counter has wrapped to a negative
\* odd value) of a strobe animation has written the odd colour
C21_Witness ==
  /\ call.op = "update" /\ call.branch = "step"
  /\ animationMode = ANIM_STROBE
  /\ redraws = INT_MAX + 3
  /\ animationStep < 0
  /\ call.wr = << <<0, 0, 0>> >>

----------------------------------------------------------------------------
(* The animations driven by the sine table, run for more than one turn of the
   table: started, restarted during the first moments, then update() called each
   time the interval of the mode has passed *)

MaxSineRedraws == 70

\* restarts are made during the first 200 ms
RestartUntil == 200

SineModes == {ANIM_MATRIX, ANIM_PULSE_RED, ANIM_PULSE_BLUE, ANIM_OCEAN}

SineSecs == {0, 5}

StartSine ==
  /\ call.op \in {"begin", "update"}
  /\ clock[1] = 0 /\ clock[2] < RestartUntil
  /\ \E animType \in SineModes, durationSeconds \in SineSecs :
       StartAnimation(animType, durationSeconds)

WaitSine ==
  /\ call.op \in {"startAnimation", "update"}
  /\ redraws <= MaxSineRedraws
  /\ Tick(UL(animationInterval))

PollSine == call.op = "none" /\ Poll

NextSine ==
  \/ Setup
  \/ StartSine
  \/ WaitSine
  \/ PollSine

SpecSine == InitPlain /\ [][NextSine]_vars

\* the colour of the k-th redraw of the matrix and pulse animations, as the claim
\* gives it: the table value at (s * k) mod 64 on the channel of the mode
SineColour(mode, k) ==
  LET s == IF mode = ANIM_MATRIX THEN 1 ELSE 2
      v == sineLookup[((s * k) % 64) + 1]
  IN IF mode = ANIM_MATRIX THEN <<0, v, 0>>
     ELSE IF mode = ANIM_PULSE_RED THEN <<v, 0, 0>>
     ELSE <<0, 0, v>>

\* C22: the k-th on-interval update() after the start (k = 0, 1, ...) of a matrix,
\* pulse-red or pulse-blue animation writes sineLookup[(s * k) mod 64] on the
\* green, red or blue channel and 0 on the other two, with s = 1 for matrix and
\* s = 2 for the pulses; the phase index is within 0..63 in every state.
C22_SineOfRedraws ==
  /\ animationIndex \in 0..63
  /\ (call.op = "update" /\ call.branch = "step"
        /\ animationMode \in {ANIM_MATRIX, ANIM_PULSE_RED, ANIM_PULSE_BLUE})
       => call.wr = << SineColour(animationMode, redraws - 1) >>

\* a pulse animation that was started while another animation had advanced the
\* phase index has made redraw 33 (k = 32, where 2 * k has passed the table's end)
\* and written the table's first value again
C22_Witness ==
  /\ call.op = "update" /\ call.branch = "step"
  /\ animationMode = ANIM_PULSE_BLUE
  /\ LtUL(ZeroUL, SubUL(clock, UL(33 * 30)))
  /\ redraws = 33
  /\ call.wr = << <<0, 0, sineLookup[1]>> >>
  /\ animationIndex = 2

\* C23: the k-th on-interval update() after the start (k = 0, 1, ...) of an ocean
\* animation writes red 0, blue sineLookup[k mod 64] and green
\* floor(sineLookup[(2 * k) mod 64] * 100 / 255), which is within 0..100; the first
\* phase index advances by 1 and the second by 2, both modulo 64, and both are
\* within 0..63 in every state.
C23_OceanOfRedraws ==
  /\ animationIndex \in 0..63 /\ animationIndex2 \in 0..63
  /\ (call.op = "update" /\ call.branch = "step" /\ animationMode = ANIM_OCEAN)
       => LET k == redraws - 1 IN
          /\ Len(call.wr) = 1
          /\ call.wr[1][1] = 0
          /\ call.wr[1][2] = (sineLookup[((2 * k) % 64) + 1] * 100) \div 255
          /\ call.wr[1][2] \in 0..100
          /\ call.wr[1][3] = sineLookup[(k % 64) + 1]
          /\ animationIndex = (k + 1) % 64
          /\ animationIndex2 = (2 * (k + 1)) % 64

\* an ocean animation has made redraw 40 (k = 39): the first index reads entry 39
\* for the blue channel while the second has gone round the table to entry 14, a
\* peak of 255, which gives green 100
C23_Witness ==
  /\ call.op = "update" /\ call.branch = "step"
  /\ animationMode = ANIM_OCEAN
  /\ redraws = 40
  /\ call.wr = << <<0, 100, sineLookup[40]>> >>
  /\ animationIndex = 40 /\ animationIndex2 = 16

----------------------------------------------------------------------------
(* One fire animation, observed: started once, then update() called each time the
   interval of the mode has passed, with values of random(56) and random(100) from
   both ends and the middle of their ranges *)

MaxFireRedraws == 2

FireRand56 == {0, 1, 27, 54, 55}

FireRand100 == {0, 1, 50, 98, 99}

FireSecs == {0, 1}

StartFire ==
  /\ call.op = "begin"
  /\ \E durationSeconds \in FireSecs : StartAnimation(ANIM_FIRE, durationSeconds)

WaitFire ==
  /\ call.op \in {"startAnimation", "update"}
  /\ redraws <= MaxFireRedraws
  /\ Tick(UL(animationInterval))

PollFire ==
  /\ call.op = "none"
  /\ \E r56 \in FireRand56, r100 \in FireRand100 : Update(r56, r100)

NextFire ==
  \/ Setup
  \/ StartFire
  \/ WaitFire
  \/ PollFire

SpecFire == InitObserved /\ [][NextFire]_vars

\* C24: every on-interval update() of a fire animation writes one colour with red
\* within 200..255, green within 0..99 and blue 0, and leaves the step counter and
\* both phase indices as they were; whatever was written before, every pair of
\* random values gives its own colour.
C24_FireFlicker ==
  /\ [][(call'.op = "update" /\ call'.branch = "step" /\ animationMode = ANIM_FIRE)
          => /\ Len(call'.wr) = 1
             /\ call'.wr[1][1] \in 200..255
             /\ call'.wr[1][2] \in 0..99
             /\ call'.wr[1][3] = 0
             /\ UNCHANGED <<animationStep, animationIndex, animationIndex2>>]_vars
  /\ [](  (begun /\ animationMode = ANIM_FIRE /\ ~WithinInterval /\ ~PastEndTime)
            => \A r56 \in FireRand56, r100 \in FireRand100 :
                 ENABLED (Update(r56, r100)
                            /\ call'.wr = << <<200 + r56, r100, 0>> >>))

\* a fire animation has written the darkest colour and, one interval later, the
\* brightest
C24_Witness ==
  /\ Len(trace) = 3
  /\ trace[1].op = "startAnimation" /\ trace[1].arg[1] = ANIM_FIRE
  /\ trace[2].branch = "step" /\ trace[2].wr = << <<200, 0, 0>> >>
  /\ trace[3].branch = "step" /\ trace[3].wr = << <<255, 99, 0>> >>
  /\ animationStep = 0 /\ animationIndex = 0 /\ animationIndex2 = 0

----------------------------------------------------------------------------
(* A duration animation interrupted by a flash command, observed: a command with a
   duration of one second, then "LED:ack" or "LED:nack" while that animation runs,
   and update() calls before, between and after *)

MaxResumeUpdates == 4

\* the commands "LED:<name> 1"
SecondLines == {LedLine(n, 1) : n \in DurationNames}

\* the commands "LED:ack" and "LED:nack"
BriefLines == {LedPrefix \o commands[i].name : i \in {1, 2}}

CommandSecond ==
  /\ ~isAnimating
  /\ \E command \in SecondLines : ProcessCommand(command)

\* a flash command given while an animation with an end time runs
CommandBrief ==
  /\ animationMode \in LastingModes
  /\ animationEndTime # ZeroUL /\ ~PastEndTime
  /\ \E command \in BriefLines : ProcessCommand(command)

PollResume == Len(trace) < MaxResumeUpdates + 1 /\ Poll

NextResume ==
  \/ Setup
  \/ PassFlash
  \/ CommandSecond
  \/ CommandBrief
  \/ PollResume

SpecResume == InitObserved /\ [][NextResume]_vars

\* the last command given was a flash command
FlashCommanded ==
  /\ trace # <<>>
  /\ trace[1].op = "processCommand"
  /\ trace[1].arg \in BriefLines

\* C25: after a command has started a flash while a duration animation was running,
\* the mode is that of the flash or Off and the end time is that of the flash or
\* none, whatever update() calls follow: the mode and the end time of the
\* interrupted animation do not come back; and once the mode is Off, update()
\* leaves it Off.
C25_NeverResumes ==
  /\ [](FlashCommanded
          => /\ animationMode
                  \in {commands[EntryOf(Rest(trace[1].arg))].animationType, ANIM_OFF}
             /\ animationEndTime \in {ZeroUL, AddUL(trace[1].t, UL(300))})
  /\ [][(call'.op = "update" /\ animationMode = ANIM_OFF)
          => animationMode' = ANIM_OFF]_vars

\* "LED:ack" was given at 50 ms, over an animation that had a second to run; the
\* flash has ended and an update() at 450 ms, within that second, found the engine
\* Off and wrote (0,0,0)
C25_Witness ==
  /\ FlashCommanded
  /\ trace[1].t = UL(50)
  /\ Len(trace) = 4
  /\ trace[3].branch = "step" /\ trace[3].wr = << <<0, 0, 0>> >>
  /\ trace[4].t = UL(450) /\ trace[4].branch = "step"
  /\ trace[4].wr = << <<0, 0, 0>> >>
  /\ animationMode = ANIM_OFF
  /\ animationEndTime = ZeroUL

----------------------------------------------------------------------------
(* The engine in and out of Off, at clock values on both sides of the wrap of
   millis(): animations started and commands given while the engine is Off, the
   flashes and off() at any time *)

\* the commands given in Off: two with a duration of one second, the flashes, and
\* the lines that match no entry
OffLines == {LedLine(Matrix, 1), LedLine(Thinking, 1)} \cup BriefLines \cup UnknownLines

CommandInOff ==
  /\ ~isAnimating
  /\ \E command \in OffLines : ProcessCommand(command)

StartInOff == ~isAnimating /\ Start

NextOff ==
  \/ Setup
  \/ PassWrap
  \/ Poll
  \/ StartInOff
  \/ FlashAck
  \/ FlashNack
  \/ Off
  \/ CommandInOff

SpecOff == InitPlain /\ [][NextOff]_vars

\* C26: after construction the mode is Off and isAnimating() is false; an update()
\* made in Off, at any clock value, leaves the mode Off and writes nothing but
\* (0,0,0); a step that leaves Off is a call of startAnimation with a mode other
\* than Off, made directly, by flashAck()/flashNack() or by processCommand().
C26_OffIsStable ==
  /\ [](call.op = "new" => animationMode = ANIM_OFF /\ ~isAnimating)
  /\ [][(call'.op = "update" /\ animationMode = ANIM_OFF)
          => /\ animationMode' = ANIM_OFF
             /\ \A i \in 1..Len(call'.wr) : call'.wr[i] = <<0, 0, 0>>
             /\ pins' = setColor(0, 0, 0)]_vars
  /\ [][(animationMode = ANIM_OFF /\ animationMode' # ANIM_OFF)
          => \/ call'.op = "startAnimation" /\ call'.arg[1] = animationMode'
             \/ call'.op = "flashAck" /\ animationMode' = ANIM_ACK
             \/ call'.op = "flashNack" /\ animationMode' = ANIM_NACK
             \/ call'.op = "processCommand" /\ call'.branch = "start"]_vars

\* after the counter has wrapped, with the end time of an animation that ran out
\* still stored, an update() in Off has run the switch, written (0,0,0) and left
\* the mode Off
C26_Witness ==
  /\ call.op = "update" /\ call.branch = "step"
  /\ call.wr = << <<0, 0, 0>> >>
  /\ animationMode = ANIM_OFF
  /\ animationEndTime # ZeroUL
  /\ LtUL(clock, animationEndTime)
  /\ redraws > 0

----------------------------------------------------------------------------
(* The display controller: DisplayController.{h,cpp}.  The TM1637Display it owns
   is seen through the calls made on it. *)

\* the characters with the codes CHAR_LOOKUP_MIN..CHAR_LOOKUP_MAX (32..90), in the
\* order of their codes
LookupChars == <<
  " ", "!", "\"", "#", "$", "%", "&", "'", "(", ")", "*", "+", ",", "-", ".", "/",
  "0", "1", "2", "3", "4", "5", "6", "7", "8", "9",
  ":", ";", "<", "=", ">", "?", "@",
  "A", "B", "C", "D", "E", "F", "G", "H", "I", "J", "K", "L", "M",
  "N", "O", "P", "Q", "R", "S", "T", "U", "V", "W", "X", "Y", "Z" >>

CHAR_LOOKUP_LEN == Len(LookupChars)

\* CHAR_LOOKUP[CHAR_LOOKUP_LEN], 1-based here
CHAR_LOOKUP == <<
  0, 0, 0, 0,  0, 0, 0, 0,  0, 0, 0, 64,  0, 64, 0, 0,
  63, 6, 91, 79,  102, 109, 125, 7,  127, 111,
  0, 0, 0, 0, 0, 0, 0,
  119, 124, 57, 94, 121, 113, 61, 118,
  6, 30, 0, 56, 0, 84, 63, 115,
  0, 80, 109, 120, 62, 0, 0, 0,
  110, 0 >>

LowerLetters == <<
  "a", "b", "c", "d", "e", "f", "g", "h", "i", "j", "k", "l", "m",
  "n", "o", "p", "q", "r", "s", "t", "u", "v", "w", "x", "y", "z" >>

\* String::toUpperCase: the lower-case letters become upper-case ('A' is entry 34
\* of LookupChars), every other character stays
toUpperCase(s) ==
  [i \in 1..Len(s) |->
     IF \E k \in 1..26 : LowerLetters[k] = s[i]
     THEN LookupChars[33 + (CHOOSE k \in 1..26 : LowerLetters[k] = s[i])]
     ELSE s[i]]

\* DisplayController::encodeChar
encodeChar(c) ==
  IF \E i \in 1..CHAR_LOOKUP_LEN : LookupChars[i] = c
  THEN CHAR_LOOKUP[CHOOSE i \in 1..CHAR_LOOKUP_LEN : LookupChars[i] = c]
  ELSE 0

\* DisplayController::isNumericString
isNumericString(str) == Len(str) # 0 /\ \A i \in 1..Len(str) : IsDigit(str[i])

\* a call made on the TM1637Display
Device(fn, arg) == [fn |-> fn, arg |-> arg]

\* DisplayController::displayNumericString, for one to four digits: right-aligned,
\* the leading positions blank
NumericSegments(numStr) ==
  LET startPos == 4 - Len(numStr) IN
  [p \in 1..4 |-> IF p > startPos THEN encodeChar(numStr[p - startPos]) ELSE 0]

\* DisplayController::displayText: the segments of the first four characters
TextSegments(text) ==
  [p \in 1..4 |-> IF p <= Len(text) THEN encodeChar(text[p]) ELSE 0]

\* DisplayController::displayText: the calls it makes on the display
TextWrites(text) ==
  IF ~displayEnabled THEN NoWrite
  ELSE IF isNumericString(text) /\ Len(text) <= 4
  THEN << Device("setSegments", NumericSegments(text)) >>
  ELSE << Device("setSegments", TextSegments(text)) >>

\* DisplayController::displayNumber: the calls it makes on the display
NumberWrites(number) ==
  IF ~displayEnabled THEN NoWrite ELSE << Device("showNumberDec", <<number>>) >>

\* DisplayController::setBrightness: the value of displayBrightness after it
BrightnessStored(brightness) ==
  IF brightness >= 0 /\ brightness <= 7 THEN brightness ELSE displayBrightness

\* setBrightness applying the value although the display is disabled
BrightnessWrites_Regardless(brightness) ==
  IF brightness >= 0 /\ brightness <= 7
  THEN << Device("setBrightness", <<brightness>>) >>
  ELSE NoWrite

\* DisplayController::setBrightness: the calls it makes on the display
BrightnessWrites(brightness) ==
  IF brightness >= 0 /\ brightness <= 7 /\ displayEnabled
  THEN << Device("setBrightness", <<brightness>>) >>
  ELSE NoWrite

\* the record of a call on the display controller; it leaves the engine, a separate
\* object, as it is
DisplayCalled(op, arg, ret, wr, msg) ==
  /\ dcall' = [op |-> op, arg |-> arg, ret |-> ret, wr |-> wr, msg |-> msg]
  /\ UNCHANGED led

\* DisplayController::begin, with showStartupPattern
DisplayBegin ==
  /\ dcall.op = "new"
  /\ DisplayCalled("begin", NoArg, "void",
                   << Device("setBrightness", <<displayBrightness>>), Device("clear", <<>>),
                      Device("showNumberDec", <<8888>>), Device("clear", <<>>) >>, "")
  /\ UNCHANGED <<displayBrightness, displayEnabled, displayDebug>>

\* DisplayController::setDebugMode
SetDebugMode(debug) ==
  /\ dcall.op # "new"
  /\ displayDebug' = debug
  /\ DisplayCalled("setDebugMode", <<debug>>, "void", NoWrite, "")
  /\ UNCHANGED <<displayBrightness, displayEnabled>>

\* DisplayController::showReady
ShowReady ==
  /\ dcall.op # "new"
  /\ DisplayCalled("showReady", NoArg, "void",
                   << Device("setSegments", <<80, 121, 94, 110>>) >>, "")
  /\ UNCHANGED <<displayBrightness, displayEnabled, displayDebug>>

\* DisplayController::showDashes
ShowDashes ==
  /\ dcall.op # "new"
  /\ DisplayCalled("showDashes", NoArg, "void",
                   << Device("setSegments", <<64, 64, 64, 64>>) >>, "")
  /\ UNCHANGED <<displayBrightness, displayEnabled, displayDebug>>

\* DisplayController::clear
Clear ==
  /\ dcall.op # "new"
  /\ DisplayCalled("clear", NoArg, "void", << Device("clear", <<>>) >>, "")
  /\ UNCHANGED <<displayBrightness, displayEnabled, displayDebug>>

\* DisplayController::displayText
DisplayText(text) ==
  /\ dcall.op # "new"
  /\ DisplayCalled("displayText", text, "void", TextWrites(text), "")
  /\ UNCHANGED <<displayBrightness, displayEnabled, displayDebug>>

\* DisplayController::displayNumber
DisplayNumber(number) ==
  /\ dcall.op # "new"
  /\ DisplayCalled("displayNumber", <<number>>, "void", NumberWrites(number), "")
  /\ UNCHANGED <<displayBrightness, displayEnabled, displayDebug>>

\* DisplayController::setBrightness
SetBrightness(brightness) ==
  /\ dcall.op # "new"
  /\ displayBrightness' = BrightnessStored(brightness)
  /\ DisplayCalled("setBrightness", <<brightness>>, "void", BrightnessWrites(brightness), "")
  /\ UNCHANGED <<displayEnabled, displayDebug>>

\* DisplayController::turnOn
TurnOn ==
  /\ dcall.op # "new"
  /\ displayEnabled' = TRUE
  /\ DisplayCalled("turnOn", NoArg, "void",
                   << Device("setBrightness", <<displayBrightness>>) >>, "")
  /\ UNCHANGED <<displayBrightness, displayDebug>>

\* DisplayController::turnOff
TurnOff ==
  /\ dcall.op # "new"
  /\ displayEnabled' = FALSE
  /\ DisplayCalled("turnOff", NoArg, "void", << Device("setBrightness", <<0>>) >>, "")
  /\ UNCHANGED <<displayBrightness, displayDebug>>

\* DisplayController::isEnabled
isEnabled == displayEnabled

\* "DISP:"
DispPrefix == <<"D","I","S","P",":">>

\* "BRT:"
BrtPrefix == <<"B","R","T",":">>

\* processCommand(): int brightness = param.substring(4).toInt()
Brightness(param) == ToInt16(toInt(Substring(param, 4)))

\* DisplayController::processCommand
DisplayProcessCommand(command) ==
  /\ dcall.op # "new"
  /\ \E upper \in {toUpperCase(command)} :
       IF ~StartsWith(upper, DispPrefix)
       THEN /\ DisplayCalled("processCommand", command, "false", NoWrite, "")
            /\ UNCHANGED <<displayBrightness, displayEnabled, displayDebug>>
       ELSE \E param \in {Substring(upper, 5)} :
            IF param = <<"C","L","R">>
            THEN /\ DisplayCalled("processCommand", command, "true",
                                  << Device("clear", <<>>) >>,
                                  IF displayDebug THEN "Display cleared" ELSE "")
                 /\ UNCHANGED <<displayBrightness, displayEnabled, displayDebug>>
            ELSE IF param = <<"O","N">>
            THEN /\ displayEnabled' = TRUE
                 /\ DisplayCalled("processCommand", command, "true",
                                  << Device("setBrightness", <<displayBrightness>>) >>,
                                  IF displayDebug THEN "Display turned ON" ELSE "")
                 /\ UNCHANGED <<displayBrightness, displayDebug>>
            ELSE IF param = <<"O","F","F">>
            THEN /\ displayEnabled' = FALSE
                 /\ DisplayCalled("processCommand", command, "true",
                                  << Device("setBrightness", <<0>>) >>,
                                  IF displayDebug THEN "Display turned OFF" ELSE "")
                 /\ UNCHANGED <<displayBrightness, displayDebug>>
            ELSE IF StartsWith(param, BrtPrefix)
            THEN \E brightness \in {Brightness(param)} :
                 IF brightness >= 0 /\ brightness <= 7
                 THEN /\ displayBrightness' = BrightnessStored(brightness)
                      /\ DisplayCalled("processCommand", command, "true",
                                       BrightnessWrites(brightness),
                                       IF displayDebug THEN "Display brightness set to: "
                                       ELSE "")
                      /\ UNCHANGED <<displayEnabled, displayDebug>>
                 ELSE /\ DisplayCalled("processCommand", command, "true", NoWrite,
                                       IF displayDebug THEN "Invalid brightness (0-7)"
                                       ELSE "")
                      /\ UNCHANGED <<displayBrightness, displayEnabled, displayDebug>>
            ELSE /\ DisplayCalled("processCommand", command, "true",
                                  IF displayEnabled THEN TextWrites(param) ELSE NoWrite,
                                  IF displayDebug
                                  THEN (IF displayEnabled THEN "Displayed: "
                                        ELSE "Display is OFF - use DISP:ON to enable")
                                  ELSE "")
                 /\ UNCHANGED <<displayBrightness, displayEnabled, displayDebug>>

----------------------------------------------------------------------------
(* The lines given to the display controller *)

\* the command "DISP:BRT:<n>"
BrtLine(n) == DispPrefix \o BrtPrefix \o Decimal(n)

\* the numbers given as brightness: the range 0..7, its neighbours, and numbers
\* beyond the range of a 16-bit int
BrightnessNumbers == {-1, 0, 3, 7, 8, 255, 65539}

\* brightness commands, one of them in lower case
BrtLines == {BrtLine(n) : n \in BrightnessNumbers} \cup {<<"d","i","s","p",":","b","r","t",":","5">>}

\* the other display commands, texts and numbers to show, and lines that are not
\* display commands
DispLines == BrtLines \cup {
  <<"D","I","S","P",":","C","L","R">>,
  <<"D","I","S","P",":","O","N">>,
  <<"D","I","S","P",":","O","F","F">>,
  <<"d","i","s","p",":","o","n">>,
  <<"D","I","S","P",":","H","I">>,
  <<"D","I","S","P",":","H","e","l","l","o">>,
  <<"D","I","S","P",":","4","2">>,
  <<"D","I","S","P",":","0","0","4","2">>,
  <<"D","I","S","P",":","1","2","3","4","5">>,
  <<"D","I","S","P",":">>,
  <<"D","I","S","P",":","B","R","T",":","a","b","c">>,
  <<"L","E","D",":","a","c","k">>,
  <<"D","I","S","P">> }

\* the arguments of direct calls
BrightnessArgs == {-1, 0, 5, 7, 8, 259}

Texts == {<<"H","i">>, <<"0","0","7">>}

Numbers == {-5, 42}

----------------------------------------------------------------------------
(* The display controller under its callers *)

DisplaySetup == DisplayBegin

DebugSwitch == \E debug \in BOOLEAN : SetDebugMode(debug)

Text == \E text \in Texts : DisplayText(text)

Number == \E number \in Numbers : DisplayNumber(number)

BrightnessCall == \E brightness \in BrightnessArgs : SetBrightness(brightness)

DisplayCommand == \E command \in DispLines : DisplayProcessCommand(command)

NextDisp ==
  \/ DisplaySetup
  \/ DebugSwitch
  \/ ShowReady
  \/ ShowDashes
  \/ Clear
  \/ Text
  \/ Number
  \/ BrightnessCall
  \/ TurnOn
  \/ TurnOff
  \/ DisplayCommand

SpecDisp == InitPlain /\ [][NextDisp]_vars

----------------------------------------------------------------------------
(* Properties of the display controller *)

\* the call was processCommand with one of the given lines
Commanded(lines) == dcall'.op = "processCommand" /\ dcall'.arg \in lines

\* C27 as stated: "DISP:BRT:n" and setBrightness(n) with n outside 0..7 leave
\* displayBrightness and the enabled flag as they were and make no call on the
\* display, processCommand returns true; displayBrightness is within 0..7 in
\* every state.
C27_AsStated ==
  /\ [](displayBrightness \in 0..7)
  /\ [][Commanded({BrtLine(n) : n \in BrightnessNumbers \ (0..7)})
          => /\ UNCHANGED <<displayBrightness, displayEnabled>>
             /\ dcall'.wr = NoWrite
             /\ dcall'.ret = "true"]_vars
  /\ [][(dcall'.op = "setBrightness" /\ dcall'.arg[1] \notin 0..7)
          => /\ UNCHANGED <<displayBrightness, displayEnabled>>
             /\ dcall'.wr = NoWrite]_vars

\* the display commands that are texts or numbers to show
ShowLines ==
  {c \in DispLines : /\ StartsWith(toUpperCase(c), DispPrefix)
                     /\ ~StartsWith(Substring(toUpperCase(c), 5), BrtPrefix)
                     /\ Substring(toUpperCase(c), 5)
                          \notin {<<"C","L","R">>, <<"O","N">>, <<"O","F","F">>}}

\* the commands "DISP:ON", in either case
OnLines == {c \in DispLines : toUpperCase(c) = DispPrefix \o <<"O","N">>}

\* the lines that are display commands
PrefixedLines == {c \in DispLines : StartsWith(toUpperCase(c), DispPrefix)}

\* C30: while the display is disabled, a text or number command makes no call on
\* the display and changes nothing; "DISP:BRT:n" with n within 0..7 stores n and
\* makes no call on the display, the display staying disabled; "DISP:ON" enables
\* the display and gives it the stored brightness; every DISP: command returns
\* true.
C30_DisabledDisplay ==
  /\ [][(~displayEnabled /\ Commanded(ShowLines))
          => /\ dcall'.wr = NoWrite
             /\ UNCHANGED <<displayBrightness, displayEnabled>>]_vars
  /\ [][\A n \in 0..7 :
          (~displayEnabled /\ Commanded({BrtLine(n)}))
            => /\ displayBrightness' = n
               /\ dcall'.wr = NoWrite
               /\ ~displayEnabled']_vars
  /\ [][(~displayEnabled /\ Commanded(OnLines))
          => /\ dcall'.wr = << Device("setBrightness", <<displayBrightness>>) >>
             /\ displayEnabled'
             /\ UNCHANGED displayBrightness]_vars
  /\ [][(~displayEnabled /\ Commanded(PrefixedLines)) => dcall'.ret = "true"]_vars

\* with the display disabled, "DISP:BRT:7" has stored 7 and written nothing
C30_Witness ==
  /\ dcall.op = "processCommand" /\ dcall.arg = BrtLine(7)
  /\ ~displayEnabled
  /\ displayBrightness = 7
  /\ dcall.wr = NoWrite
  /\ dcall.ret = "true"

----------------------------------------------------------------------------
(* Properties of the end time close to the maximum of millis() *)

\* the time since the start of the running ten-second animation is at most ten
\* seconds: the start was 10000 ms before the end time it set
WithinTenSeconds ==
  ~LtUL(UL(10000), SubUL(clock, SubUL(animationEndTime, UL(10000))))

\* C29 as stated: after startAnimation(ANIM_RED_BLUE, 10) at any clock value, the
\* animation has an end time, and no update() made at most 10000 ms after the
\* start ends it.
C29_AsStated ==
  /\ []((call.op = "startAnimation" /\ animationMode = ANIM_RED_BLUE)
          => animationEndTime # ZeroUL)
  /\ [][(call'.op = "update" /\ animationMode = ANIM_RED_BLUE /\ WithinTenSeconds)
          => animationMode' = ANIM_RED_BLUE]_vars

----------------------------------------------------------------------------
(* The engine under the sketch's loop, for as long as it runs: millis() goes
   round its 32 bits, update() is called at every instant, and a command is given
   only while no animation runs *)

\* the clock values in the order in which they pass, the first following the last:
\* 0, 150, 1100, 2000, 2^32 - 1000, 2^32 - 1
LiveTimes ==
  << ZeroUL, <<0, 150>>, <<0, 1100>>, <<0, 2000>>, <<65535, 64536>>, <<65535, 65535>> >>

\* the commands given: the flashes, a duration of one second for a mode whose state
\* repeats after 64 redraws, and one of twenty seconds
LiveLines == BriefLines \cup {LedLine(Matrix, 1), LedLine(Thinking, 20)}

WaitLive ==
  /\ call.op \in {"begin", "update", "processCommand"}
  /\ \E i \in 1..Len(LiveTimes) :
       /\ clock = LiveTimes[i]
       /\ Tick(SubUL(LiveTimes[(i % Len(LiveTimes)) + 1], clock))

PollLive == call.op = "none" /\ Poll

CommandLive ==
  /\ call.op \in {"begin", "update"}
  /\ ~isAnimating
  /\ \E command \in LiveLines : ProcessCommand(command)

NextLive ==
  \/ Setup
  \/ WaitLive
  \/ PollLive
  \/ CommandLive

\* loop() never stops: the clock advances and update() is called again and again
SpecLive ==
  /\ InitUnobserved
  /\ [][NextLive]_vars
  /\ WF_vars(WaitLive)
  /\ WF_vars(PollLive)

\* C28 as stated: an animation started by processCommand returns to Off, given
\* that update() keeps being called, the clock keeps advancing and no further
\* command is given.
C28_AsStated ==
  (call.op = "processCommand" /\ isAnimating) ~> ~isAnimating

====
